---- MODULE Spec2Model ----
(***************************************************************************)
(* A model of the optipuls optimal-control code:                           *)
(*   src/core.py             solve_forward, solve_adjoint, Dj,             *)
(*                           gradient_descent                              *)
(*   src/splines.py          gen_hermite_spline                            *)
(*   src/optipuls/splines.py Spline, HermiteSpline, NaiveHermiteSpline     *)
(*                                                                         *)
(* Numbers.  Control entries, step sizes and gradient entries are floats   *)
(* in the code.  Here a control entry is an integer number of grid units,  *)
(* One units being the float 1.0.  The step size s is a power of two, the  *)
(* only values that halving and doubling a float produce from its start    *)
(* value; it is counted in units of the smallest positive step, so that    *)
(* the half of 1 is 0 (the half of the smallest positive double rounds to  *)
(* zero the same way).  A gradient entry is an integer in units such that  *)
(* s * D is in control units.  Costs are totally ordered integers.         *)
(***************************************************************************)
EXTENDS Integers, Sequences, FiniteSets, TLC

(***************************************************************************)
(* Bounds of the model.                                                    *)
(***************************************************************************)
\* Costs range over 0..MaxCost.
MaxCost == 2
\* iter_max ranges over 0..MaxIter.
MaxIter == 2

(***************************************************************************)
(* Constants of the program, scaled to the grid of the model.              *)
(***************************************************************************)
\* Nt, the module-level number of time steps (30 in core.py).
Nt == 2
\* The upper end 1 of np.clip(..., 0, 1), in control grid units.
One == 2

\* dt * sum(D**2) < tolerance: with integer gradients only the zero gradient
\* is below the tolerance.
tolerance == 1

\* "No value" for the integer-valued locals and history variables.
None == 0 - 1

VARIABLES
  \* ---- gradient_descent (core.py:346-401) ----
  pc,                   \* the statement the driver is at
  arg_control,          \* the control the caller passed
  control,              \* the current control
  s,                    \* the step size
  iter_max,             \* the iteration budget
  i,                    \* outer iterations started
  evolution,            \* the forward trajectory of the current control
  cost,
  cost_next,
  D,                    \* the gradient of this outer iteration
  first_try,
  control_next,
  evolution_next,
  ci_bound,             \* whether the local controls_iterations is bound
  controls_iterations,
  outcome,              \* "running", "returned" or "UnboundLocalError"
  interrupted,          \* the statement a KeyboardInterrupt arrived at, or ""
  Jmemo,                \* the cost of each trajectory evaluated so far
  \* ---- history of the line search ----
  sEntry,               \* s when the current line search was entered
  lastS,                \* the step size of the latest proposal
  prevS,                \* that of the proposal rejected just before it
  accS,                 \* that of the proposal the last iteration accepted
  \* ---- solve_forward, solve_adjoint, Dj run in sequence on one control ----
  ppc,                  \* the statement the sequence is at
  p_control,            \* the control passed to all three
  p_theta_init,         \* the initial state passed to solve_forward
  p_outcome,            \* "running", "returned" or "IndexError"
  f_theta,              \* solve_forward: theta
  f_theta_,             \* solve_forward: theta_
  f_evolution,          \* solve_forward: evolution
  f_k,                  \* solve_forward: k
  f_solved,             \* the steps solve_forward has solved, in order
  a_p_next,             \* solve_adjoint: p_next
  a_theta_next,         \* solve_adjoint: theta_next
  a_theta_prev,         \* solve_adjoint: theta_prev
  a_theta_next_,        \* solve_adjoint: theta_next_
  a_evolution_adj,      \* solve_adjoint: evolution_adj
  a_k,                  \* solve_adjoint: k
  a_M,                  \* solve_adjoint: M
  g_z,                  \* Dj: z
  g_i,                  \* Dj: i
  \* ---- construction of a spline ----
  sp_pc,                \* "call" before the constructor runs, "done" after
  sp_ctor,              \* the constructor that ran
  sp_knots,             \* the argument knots
  sp_values,            \* the argument values
  sp_derivatives,       \* the argument derivatives (HermiteSpline)
  sp_extrapolation_left,
  sp_extrapolation_right,
  sp_coef_rows,         \* the rows of the argument coef_array (Spline)
  sp_raised,            \* the exception raised, "" when none
  sp_coef_array,        \* the polynomials of the spline built
  \* ---- spline_as_ufl (splines.py:59-74) ----
  u_t,                  \* the value of t, in halves of a knot unit; None before
  u_cond,               \* the values of the conditionals, one for each branch
  u_value               \* the value of the expression, a quotient

dvars == <<pc, arg_control, control, s, iter_max, i, evolution, cost, cost_next, D,
           first_try, control_next, evolution_next, ci_bound,
           controls_iterations, outcome, interrupted, Jmemo,
           sEntry, lastS, prevS, accS>>

pvars == <<ppc, p_control, p_theta_init, p_outcome, f_theta, f_theta_,
           f_evolution, f_k, f_solved, a_p_next, a_theta_next, a_theta_prev,
           a_theta_next_, a_evolution_adj, a_k, a_M, g_z, g_i>>

svars == <<sp_pc, sp_ctor, sp_knots, sp_values, sp_derivatives,
           sp_extrapolation_left, sp_extrapolation_right, sp_coef_rows,
           sp_raised, sp_coef_array, u_t, u_cond, u_value>>

vars == <<dvars, pvars, svars>>

(***************************************************************************)
(* Values.                                                                 *)
(***************************************************************************)
\* Controls as the caller may pass them: nothing checks the box on entry,
\* so an entry may lie outside it.
ControlValues == (0 - 1)..One
Controls == [1..Nt -> ControlValues]
Gradients == [1..Nt -> (0 - 1)..1]
StepSizes0 == {1, 2, 4}
Costs == 0..MaxCost

RECURSIVE SumSq(_, _)
SumSq(v, n) == IF n = 0 THEN 0 ELSE v[n] * v[n] + SumSq(v, n - 1)

\* norm = dt * np.sum(D**2)
Norm(v) == SumSq(v, Len(v))

\* np.clip(x, 0, 1) on one entry
ClipNoLower(x) == IF x > One THEN One ELSE x
Clip(x) == IF x < 0 THEN 0 ELSE IF x > One THEN One ELSE x

\* control_next = np.clip(control - s*D, 0, 1)
Proposal(c, step, g) == [k \in 1..Nt |-> Clip(c[k] - step * g[k])]

\* the loop condition of the line search
KeepSearching_firstOnly(cn, c, ft) == ft
KeepSearching(cn, c, ft) == (cn >= c) \/ ft

\* s /= 2 and s *= 2
Halve(x) == x \div 2
Double(x) == 2 * x

InBox(c) == \A k \in 1..Len(c) : c[k] >= 0 /\ c[k] <= One

(***************************************************************************)
(* gradient_descent                                                        *)
(***************************************************************************)
DInit ==
  /\ pc = "solve_forward_init"
  /\ arg_control \in Controls
  /\ control = arg_control
  /\ s \in StepSizes0
  /\ iter_max \in 0..MaxIter
  /\ i = 0
  /\ evolution = <<>>
  /\ cost = None
  /\ cost_next = None
  /\ D = <<>>
  /\ first_try = FALSE
  /\ control_next = <<>>
  /\ evolution_next = <<>>
  /\ ci_bound = FALSE
  /\ controls_iterations = <<>>
  /\ outcome = "running"
  /\ interrupted = ""
  /\ Jmemo = [c \in Controls |-> None]
  /\ sEntry = None
  /\ lastS = None
  /\ prevS = None
  /\ accS = None

\* return controls_iterations: the call is over and its frame is gone; what
\* is left is the list returned (or the exception raised), the argument the
\* caller still holds, and the costs J gave.
Return(result, how, at) ==
  /\ pc' = "done"
  /\ outcome' = how
  /\ controls_iterations' = result
  /\ interrupted' = at
  /\ control' = <<>>
  /\ s' = 0
  /\ iter_max' = 0
  /\ i' = 0
  /\ evolution' = <<>>
  /\ cost' = None
  /\ cost_next' = None
  /\ D' = <<>>
  /\ first_try' = FALSE
  /\ control_next' = <<>>
  /\ evolution_next' = <<>>
  /\ ci_bound' = FALSE
  /\ sEntry' = None
  /\ lastS' = None
  /\ prevS' = None
  /\ accS' = None
  /\ UNCHANGED <<arg_control, Jmemo>>

\* evolution = solve_forward(control, init): the trajectory is a function of
\* the control (init is fixed through the run), so it is named by it.
SolveForwardInit ==
  /\ pc = "solve_forward_init"
  /\ evolution' = control
  /\ pc' = "J_init"
  /\ UNCHANGED <<arg_control, control, s, iter_max, i, cost, cost_next, D, first_try,
                 control_next, evolution_next, ci_bound, controls_iterations,
                 outcome, interrupted, Jmemo, sEntry, lastS, prevS, accS>>
  /\ UNCHANGED <<pvars, svars>>

\* J(evolution, control): J_welding reads the trajectory only.  Its value
\* is any cost, the same whenever the same trajectory is evaluated again.
JValues(evo) == IF Jmemo[evo] = None THEN Costs ELSE {Jmemo[evo]}

\* cost = J(evolution, control); cost_next = cost
JInit ==
  /\ pc = "J_init"
  /\ \E j \in JValues(evolution) :
       /\ cost' = j
       /\ cost_next' = j
       /\ Jmemo' = [Jmemo EXCEPT ![evolution] = j]
  /\ pc' = "list_init"
  /\ UNCHANGED <<arg_control, control, s, iter_max, i, evolution, D, first_try,
                 control_next, evolution_next, ci_bound, controls_iterations,
                 outcome, interrupted, sEntry, lastS, prevS, accS>>
  /\ UNCHANGED <<pvars, svars>>

\* controls_iterations = []
ListInit ==
  /\ pc = "list_init"
  /\ ci_bound' = TRUE
  /\ controls_iterations' = <<>>
  /\ pc' = "append_init"
  /\ UNCHANGED <<arg_control, control, s, iter_max, i, evolution, cost, cost_next, D,
                 first_try, control_next, evolution_next, outcome,
                 interrupted, Jmemo, sEntry, lastS, prevS, accS>>
  /\ UNCHANGED <<pvars, svars>>

\* controls_iterations.append(control)
AppendInit ==
  /\ pc = "append_init"
  /\ controls_iterations' = Append(controls_iterations, control)
  /\ pc' = "for_head"
  /\ UNCHANGED <<arg_control, control, s, iter_max, i, evolution, cost, cost_next, D,
                 first_try, control_next, evolution_next, ci_bound, outcome,
                 interrupted, Jmemo, sEntry, lastS, prevS, accS>>
  /\ UNCHANGED <<pvars, svars>>

\* for i in range(iter_max): the next iteration starts
ForNext ==
  /\ pc = "for_head"
  /\ i < iter_max
  /\ i' = i + 1
  /\ pc' = "solve_adjoint"
  /\ UNCHANGED <<arg_control, control, s, iter_max, evolution, cost, cost_next, D,
                 first_try, control_next, evolution_next, ci_bound,
                 controls_iterations, outcome, interrupted, Jmemo,
                 sEntry, lastS, prevS, accS>>
  /\ UNCHANGED <<pvars, svars>>

\* for i in range(iter_max): exhausted; return controls_iterations
ForExhausted ==
  /\ pc = "for_head"
  /\ i >= iter_max
  /\ Return(controls_iterations, "returned", "")
  /\ UNCHANGED <<pvars, svars>>

\* evolution_adj = solve_adjoint(evolution, control)
SolveAdjoint ==
  /\ pc = "solve_adjoint"
  /\ pc' = "Dj"
  /\ UNCHANGED <<arg_control, control, s, iter_max, i, evolution, cost, cost_next, D,
                 first_try, control_next, evolution_next, ci_bound,
                 controls_iterations, outcome, interrupted, Jmemo,
                 sEntry, lastS, prevS, accS>>
  /\ UNCHANGED <<pvars, svars>>

\* D = Dj(evolution_adj, control); norm = dt * np.sum(D**2)
GradientStep ==
  /\ pc = "Dj"
  /\ D' \in Gradients
  /\ pc' = "tolerance"
  /\ UNCHANGED <<arg_control, control, s, iter_max, i, evolution, cost, cost_next,
                 first_try, control_next, evolution_next, ci_bound,
                 controls_iterations, outcome, interrupted, Jmemo,
                 sEntry, lastS, prevS, accS>>
  /\ UNCHANGED <<pvars, svars>>

\* if norm < tolerance: break; return controls_iterations
Converged ==
  /\ pc = "tolerance"
  /\ Norm(D) < tolerance
  /\ Return(controls_iterations, "returned", "")
  /\ UNCHANGED <<pvars, svars>>

\* first_try = True, and into the line search
EnterLineSearch ==
  /\ pc = "tolerance"
  /\ ~(Norm(D) < tolerance)
  /\ first_try' = TRUE
  /\ sEntry' = s
  /\ pc' = "while_head"
  /\ UNCHANGED <<arg_control, control, s, iter_max, i, evolution, cost, cost_next, D,
                 control_next, evolution_next, ci_bound,
                 controls_iterations, outcome, interrupted, Jmemo,
                 lastS, prevS, accS>>
  /\ UNCHANGED <<pvars, svars>>

\* while (cost_next >= cost) or first_try: the body is entered;
\* control_next = np.clip(control - s*D, 0, 1)
\* evolution_next = solve_forward(control_next, init)
Propose ==
  /\ pc = "while_head"
  /\ KeepSearching(cost_next, cost, first_try)
  /\ control_next' = Proposal(control, s, D)
  /\ evolution_next' = control_next'
  /\ lastS' = s
  /\ prevS' = IF first_try THEN None ELSE lastS
  /\ pc' = "J_next"
  /\ UNCHANGED <<arg_control, control, s, iter_max, i, evolution, cost, cost_next, D,
                 first_try, ci_bound, controls_iterations, outcome,
                 interrupted, Jmemo, sEntry, accS>>
  /\ UNCHANGED <<pvars, svars>>

\* cost_next = J(evolution_next, control)
\* if not first_try: s /= 2
\* first_try = False
Evaluate ==
  /\ pc = "J_next"
  /\ \E j \in JValues(evolution_next) :
       /\ cost_next' = j
       /\ Jmemo' = [Jmemo EXCEPT ![evolution_next] = j]
  /\ s' = IF ~first_try THEN Halve(s) ELSE s
  /\ first_try' = FALSE
  /\ pc' = "while_head"
  /\ UNCHANGED <<arg_control, control, iter_max, i, evolution, cost, D, control_next,
                 evolution_next, ci_bound, controls_iterations, outcome,
                 interrupted, sEntry, lastS, prevS, accS>>
  /\ UNCHANGED <<pvars, svars>>

\* the loop is left: s *= 2; control = control_next; cost = cost_next;
\* evolution = evolution_next; controls_iterations.append(control)
Accept ==
  /\ pc = "while_head"
  /\ ~KeepSearching(cost_next, cost, first_try)
  /\ s' = Double(s)
  /\ control' = control_next
  /\ cost' = cost_next
  /\ evolution' = evolution_next
  /\ controls_iterations' = Append(controls_iterations, control_next)
  /\ accS' = lastS
  /\ pc' = "for_head"
  /\ UNCHANGED <<arg_control, iter_max, i, cost_next, D, first_try, control_next,
                 evolution_next, ci_bound, outcome, interrupted, Jmemo,
                 sEntry, lastS, prevS>>
  /\ UNCHANGED <<pvars, svars>>

\* except KeyboardInterrupt: print(...); return controls_iterations.
\* The interrupt is asynchronous: it arrives at any statement of the try
\* block, before the statement the program is at has made its assignment,
\* so a call that statement makes is abandoned, started or not.  The return
\* reads the local controls_iterations, which is bound only from line 367
\* on.
Interrupt ==
  /\ pc \notin {"done", "idle"}
  /\ IF ci_bound
       THEN Return(controls_iterations, "returned", pc)
       ELSE Return(<<>>, "UnboundLocalError", pc)
  /\ UNCHANGED <<pvars, svars>>

(***************************************************************************)
(* solve_forward, solve_adjoint and Dj.                                    *)
(*                                                                         *)
(* A field (a Function(V)) is a term: the zero field, an initial state, or *)
(* what a solve returned, which names the form that was solved.  The       *)
(* solver and the assembler are outside the repository, so nothing more is *)
(* known of a solution than the form it solves.  Python's evolution[k] is  *)
(* the entry k + 1 of the sequence here.                                   *)
(***************************************************************************)
\* The longest control.
MaxLen == 3

\* Function(V): a new field has zero coefficients.
ZeroFn == <<"zero">>
\* TestFunction(V), TrialFunction(V)
TestFn == <<"v">>
TrialFn == <<"p_prev">>
InitStates == {<<"init", 0>>, <<"init", 1>>}
PControls == UNION {[1..n -> 0..1] : n \in 0..MaxLen}

At(seq, k) == seq[k + 1]
Put(seq, k, x) == [seq EXCEPT ![k + 1] = x]
Zeros(n) == [k \in 1..n |-> ZeroFn]

\* a(u, u_, v, intensity): the form of one time step
a(u, u_, v, intensity) == <<"a", u, u_, v, intensity>>

\* solve(F == 0, theta_): the solution of the form F, found from the value
\* the unknown theta_ held
SolveNonlinear(F) == <<"solution", F>>

\* theta.assign(theta_)
Assign(old, new) == new

\* F = a(theta, theta_, v, Constant(control[k]))
ForwardFormFirstIntensity(theta, theta_, ctl, k) ==
  a(theta, theta_, TestFn, At(ctl, 0))
ForwardForm(theta, theta_, ctl, k) == a(theta, theta_, TestFn, At(ctl, k))

PInit ==
  /\ ppc = "solve_forward"
  /\ p_control \in PControls
  /\ p_theta_init \in InitStates
  /\ p_outcome = "running"
  /\ f_theta = ZeroFn
  /\ f_theta_ = ZeroFn
  /\ f_evolution = <<>>
  /\ f_k = 0
  /\ f_solved = <<>>
  /\ a_p_next = ZeroFn
  /\ a_theta_next = ZeroFn
  /\ a_theta_prev = ZeroFn
  /\ a_theta_next_ = ZeroFn
  /\ a_evolution_adj = <<>>
  /\ a_k = 0
  /\ a_M = <<>>
  /\ g_z = <<>>
  /\ g_i = 0

\* solve_forward, lines 207-215
ForwardBegin ==
  /\ ppc = "solve_forward"
  /\ f_theta' = Assign(ZeroFn, p_theta_init)
  /\ f_theta_' = ZeroFn
  /\ f_evolution' = Put(Zeros(Len(p_control) + 1), 0, f_theta')
  /\ f_k' = 0
  /\ ppc' = "forward_loop"
  /\ UNCHANGED <<p_control, p_theta_init, p_outcome, f_solved, a_p_next,
                 a_theta_next, a_theta_prev, a_theta_next_, a_evolution_adj,
                 a_k, a_M, g_z, g_i>>
  /\ UNCHANGED <<dvars, svars>>

\* solve_forward, lines 217-221: one pass of the loop
ForwardStep ==
  /\ ppc = "forward_loop"
  /\ f_k < Len(p_control)
  /\ f_theta_' = SolveNonlinear(ForwardForm(f_theta, f_theta_, p_control, f_k))
  /\ f_evolution' = Put(f_evolution, f_k + 1, f_theta_')
  /\ f_theta' = Assign(f_theta, f_theta_')
  /\ f_solved' = Append(f_solved, f_k)
  /\ f_k' = f_k + 1
  /\ UNCHANGED <<ppc, p_control, p_theta_init, p_outcome, a_p_next,
                 a_theta_next, a_theta_prev, a_theta_next_, a_evolution_adj,
                 a_k, a_M, g_z, g_i>>
  /\ UNCHANGED <<dvars, svars>>

\* solve_forward, line 223: return evolution
ForwardReturn ==
  /\ ppc = "forward_loop"
  /\ f_k >= Len(p_control)
  /\ ppc' = "solve_adjoint"
  /\ UNCHANGED <<p_control, p_theta_init, p_outcome, f_theta, f_theta_,
                 f_evolution, f_k, f_solved, a_p_next, a_theta_next,
                 a_theta_prev, a_theta_next_, a_evolution_adj, a_k, a_M,
                 g_z, g_i>>
  /\ UNCHANGED <<dvars, svars>>

\* the states evolution[1..n] read by the precalculation of M
PointValues(evo, n) == [k \in 1..n |-> At(evo, k)]

\* solve_adjoint, lines 262-284: Nt = len(control); the terminal adjoint
\* state is the zero field; M is computed from evolution[1..Nt];
\* theta_next is loaded with evolution[Nt]
AdjointBegin ==
  /\ ppc = "solve_adjoint"
  /\ a_p_next' = ZeroFn
  /\ a_theta_prev' = ZeroFn
  /\ a_theta_next_' = ZeroFn
  /\ a_evolution_adj' = Put(Zeros(Len(p_control) + 1), Len(p_control), ZeroFn)
  /\ a_M' = <<"M", PointValues(f_evolution, Len(p_control))>>
  /\ a_theta_next' = At(f_evolution, Len(p_control))
  /\ a_k' = Len(p_control)
  /\ ppc' = "adjoint_loop"
  /\ UNCHANGED <<p_control, p_theta_init, p_outcome, f_theta, f_theta_,
                 f_evolution, f_k, f_solved, g_z, g_i>>
  /\ UNCHANGED <<dvars, svars>>

\* F of lines 288-293: the form of step k, plus, for k < Nt, the form of
\* the step after it
AdjointFormSwapped(k, n, th_prev, th_next, th_next_, p_nxt, ctl) ==
  <<a(th_next, th_prev, TrialFn, At(ctl, k - 1)),
    IF k < n THEN a(th_next, th_next_, p_nxt, At(ctl, k)) ELSE <<"none">> >>
AdjointForm(k, n, th_prev, th_next, th_next_, p_nxt, ctl) ==
  <<a(th_prev, th_next, TrialFn, At(ctl, k - 1)),
    IF k < n THEN a(th_next, th_next_, p_nxt, At(ctl, k)) ELSE <<"none">> >>

\* lines 295-299: assemble_system(lhs(dF), rhs(dF)) inside try/except
\* ValueError, at every step k. Without a second form (k = Nt) rhs(dF) is
\* void and the call raises ValueError; with one (k < Nt) the call assembles
\* the system or raises, as the library decides.
AssemblyOutcomes(k, n) ==
  IF k < n THEN {"assembled", "ValueError"} ELSE {"ValueError"}

\* line 299, the handler: assemble_system(lhs(dF), Constant(0)*v*dx), which
\* assembles the system or raises in its turn
FallbackOutcomes == {"assembled", "ValueError"}

\* b of lines 297-299: the right-hand side of dF, or the zero right-hand
\* side the handler puts in its place
Rhs(res) == IF res = "assembled" THEN <<"rhs">> ELSE <<"zero_rhs">>

\* lines 301-304: the point source -M*M_ is applied to b and the system is
\* solved for p
AdjointSolve(F, b, th_next, M) ==
  <<"adjoint", F, b, <<"point_source", M, th_next>> >>

\* solve_adjoint, lines 285-312: one pass of the loop
AdjointStep ==
  /\ ppc = "adjoint_loop"
  /\ a_k >= 1
  /\ a_theta_prev' = At(f_evolution, a_k - 1)
  /\ \E res \in AssemblyOutcomes(a_k, Len(p_control)) :
       LET F == AdjointForm(a_k, Len(p_control), a_theta_prev', a_theta_next,
                            a_theta_next_, a_p_next, p_control)
           p == AdjointSolve(F, Rhs(res), a_theta_next, a_M)
       IN  /\ a_evolution_adj' = Put(a_evolution_adj, a_k - 1, p)
           /\ a_p_next' = Assign(a_p_next, p)
  /\ a_theta_next_' = Assign(a_theta_next_, a_theta_next)
  /\ a_theta_next' = Assign(a_theta_next, a_theta_prev')
  /\ a_k' = a_k - 1
  /\ UNCHANGED <<ppc, p_control, p_theta_init, p_outcome, f_theta, f_theta_,
                 f_evolution, f_k, f_solved, a_M, g_z, g_i>>
  /\ UNCHANGED <<dvars, svars>>

\* solve_adjoint, lines 286-299: a pass of the loop in which the handler's
\* own assemble_system raises ValueError, which leaves solve_adjoint
AdjointRaise ==
  /\ ppc = "adjoint_loop"
  /\ a_k >= 1
  /\ "ValueError" \in AssemblyOutcomes(a_k, Len(p_control))
  /\ "ValueError" \in FallbackOutcomes
  /\ a_theta_prev' = At(f_evolution, a_k - 1)
  /\ p_outcome' = "ValueError"
  /\ ppc' = "done"
  /\ UNCHANGED <<p_control, p_theta_init, f_theta, f_theta_, f_evolution,
                 f_k, f_solved, a_p_next, a_theta_next, a_theta_next_,
                 a_evolution_adj, a_k, a_M, g_z, g_i>>
  /\ UNCHANGED <<dvars, svars>>

\* solve_adjoint, line 314: return evolution_adj
AdjointReturn ==
  /\ ppc = "adjoint_loop"
  /\ a_k < 1
  /\ ppc' = "Dj"
  /\ UNCHANGED <<p_control, p_theta_init, p_outcome, f_theta, f_theta_,
                 f_evolution, f_k, f_solved, a_p_next, a_theta_next,
                 a_theta_prev, a_theta_next_, a_evolution_adj, a_k, a_M,
                 g_z, g_i>>
  /\ UNCHANGED <<dvars, svars>>

\* The number of passes of the loop of Dj and the length of z: the
\* module-level Nt, not len(control).
DjSteps(ctl) == Nt

\* Dj, lines 333-334: z = np.zeros(Nt)
DjBegin ==
  /\ ppc = "Dj"
  /\ g_z' = [k \in 1..DjSteps(p_control) |-> 0]
  /\ g_i' = 0
  /\ ppc' = "Dj_loop"
  /\ UNCHANGED <<p_control, p_theta_init, p_outcome, f_theta, f_theta_,
                 f_evolution, f_k, f_solved, a_p_next, a_theta_next,
                 a_theta_prev, a_theta_next_, a_evolution_adj, a_k, a_M>>
  /\ UNCHANGED <<dvars, svars>>

\* Dj, lines 336-338: one pass of the loop;
\* z[i] = assemble(p * x[0] * ds(1)) with p = evolution_adj[i]
DjStep ==
  /\ ppc = "Dj_loop"
  /\ g_i < DjSteps(p_control)
  /\ g_i < Len(a_evolution_adj)
  /\ g_z' = Put(g_z, g_i, <<"assemble", At(a_evolution_adj, g_i)>>)
  /\ g_i' = g_i + 1
  /\ UNCHANGED <<ppc, p_control, p_theta_init, p_outcome, f_theta, f_theta_,
                 f_evolution, f_k, f_solved, a_p_next, a_theta_next,
                 a_theta_prev, a_theta_next_, a_evolution_adj, a_k, a_M>>
  /\ UNCHANGED <<dvars, svars>>

\* Dj, line 337: evolution_adj[i] with i beyond the last row
DjIndexError ==
  /\ ppc = "Dj_loop"
  /\ g_i < DjSteps(p_control)
  /\ g_i >= Len(a_evolution_adj)
  /\ p_outcome' = "IndexError"
  /\ ppc' = "done"
  /\ UNCHANGED <<p_control, p_theta_init, f_theta, f_theta_,
                 f_evolution, f_k, f_solved, a_p_next, a_theta_next,
                 a_theta_prev, a_theta_next_, a_evolution_adj, a_k, a_M,
                 g_z, g_i>>
  /\ UNCHANGED <<dvars, svars>>

\* Dj, lines 341-343: Dj = - laser_pd*z; return Dj
DjReturn ==
  /\ ppc = "Dj_loop"
  /\ g_i >= DjSteps(p_control)
  /\ p_outcome' = "returned"
  /\ ppc' = "done"
  /\ UNCHANGED <<p_control, p_theta_init, f_theta, f_theta_,
                 f_evolution, f_k, f_solved, a_p_next, a_theta_next,
                 a_theta_prev, a_theta_next_, a_evolution_adj, a_k, a_M,
                 g_z, g_i>>
  /\ UNCHANGED <<dvars, svars>>

\* The state of the three functions while gradient_descent is the program run.
PIdle ==
  /\ ppc = "idle"
  /\ p_control = <<>>
  /\ p_theta_init = ZeroFn
  /\ p_outcome = "idle"
  /\ f_theta = ZeroFn
  /\ f_theta_ = ZeroFn
  /\ f_evolution = <<>>
  /\ f_k = 0
  /\ f_solved = <<>>
  /\ a_p_next = ZeroFn
  /\ a_theta_next = ZeroFn
  /\ a_theta_prev = ZeroFn
  /\ a_theta_next_ = ZeroFn
  /\ a_evolution_adj = <<>>
  /\ a_k = 0
  /\ a_M = <<>>
  /\ g_z = <<>>
  /\ g_i = 0

\* The state of gradient_descent while the three functions are the program run.
DIdle ==
  /\ pc = "idle"
  /\ arg_control = <<>>
  /\ control = <<>>
  /\ s = 0
  /\ iter_max = 0
  /\ i = 0
  /\ evolution = <<>>
  /\ cost = None
  /\ cost_next = None
  /\ D = <<>>
  /\ first_try = FALSE
  /\ control_next = <<>>
  /\ evolution_next = <<>>
  /\ ci_bound = FALSE
  /\ controls_iterations = <<>>
  /\ outcome = "idle"
  /\ interrupted = ""
  /\ Jmemo = <<>>
  /\ sEntry = None
  /\ lastS = None
  /\ prevS = None
  /\ accS = None



(***************************************************************************)
(* Splines.                                                                *)
(*                                                                         *)
(* A polynomial is its four coefficients, lowest power first, as numpy     *)
(* holds them.  The code computes them in floats; here each polynomial is  *)
(* a record of integer numerators num over one denominator den, so that    *)
(* the arithmetic is exact.  den = 0 stands for the non-finite             *)
(* coefficients (inf, nan) that a division by a zero knot spacing leaves.  *)
(***************************************************************************)
\* The largest number of knots.
MaxKnots == 3
\* Knots range over 0..MaxKnot.
MaxKnot == 2

\* Hermite basis polynomials (p0, m0, p1, m1 in splines.py)
h00 == <<1, 0, 0 - 3, 2>>
h10 == <<0, 1, 0 - 2, 1>>
h01 == <<0, 0, 3, 0 - 2>>
h11 == <<0, 0, 0 - 1, 1>>

Scale(c, f) == [j \in 1..4 |-> f * c[j]]
Plus(c, d) == [j \in 1..4 |-> c[j] + d[j]]

\* Polynomial(c)(x)
PolyEval(c, x) == c[1] + c[2] * x + c[3] * x * x + c[4] * x * x * x
\* Polynomial(c).deriv()(x)
PolyDerivEval(c, x) == c[2] + 2 * c[3] * x + 3 * c[4] * x * x

\* Polynomial(c, domain=[x0, x1], window=[0, 1]).convert(): the polynomial
\* c in t = (x - x0) / (x1 - x0) written in powers of x.  These are the
\* numerators over the denominator (x1 - x0)^3.
Convert(c, x0, x1) ==
  LET h == x1 - x0
  IN  << c[1] * h * h * h - c[2] * h * h * x0 + c[3] * h * x0 * x0
           - c[4] * x0 * x0 * x0,
         c[2] * h * h - 2 * c[3] * h * x0 + 3 * c[4] * x0 * x0,
         c[3] * h - 3 * c[4] * x0,
         c[4] >>
Cube(h) == h * h * h

Poly(num, den) == [num |-> num, den |-> den]

\* np.all(knots[:-1] <= knots[1:])
Sorted(knots) == \A j \in 1..(Len(knots) - 1) : knots[j] <= knots[j + 1]
StrictlySorted(knots) == \A j \in 1..(Len(knots) - 1) : knots[j] < knots[j + 1]

\* the last row of a coefficient array for a straight line of slope
\* kn / kd with the intercept as each constructor sets it
\* gen_hermite_spline: spline[-1] = values[-1], k, 0, 0
LineGen(v, kn, kd, x) == Poly(<<v * kd, kn, 0, 0>>, kd)
\* HermiteSpline: b = values[-1] - k*knots[-1]; coef_array[-1] = b, k, 0, 0
LineHermite(v, kn, kd, x) == Poly(<<v * kd - kn * x, kn, 0, 0>>, kd)

\* values[-1], 0, 0, 0
ConstantPoly(v) == Poly(<<v, 0, 0, 0>>, 1)

\* twice np.gradient(values)[j - 1]: unit spacing, central differences
\* inside and one-sided differences at the two ends
Gradient2(values, j) ==
  IF j = 1 THEN 2 * (values[2] - values[1])
  ELSE IF j = Len(values) THEN 2 * (values[j] - values[j - 1])
  ELSE values[j + 1] - values[j - 1]

\* gen_hermite_spline, lines 32-47: the cubic of [knots[j], knots[j+1])
GenSegment(knots, values, j) ==
  LET left == Plus(Scale(h00, 2 * values[j]),
                   Scale(h10, Gradient2(values, j)))
      right == Plus(Scale(h01, 2 * values[j + 1]),
                    Scale(h11, Gradient2(values, j + 1)))
  IN  Poly(Convert(Plus(left, right), knots[j], knots[j + 1]),
           2 * Cube(knots[j + 1] - knots[j]))

\* gen_hermite_spline, lines 49-54: the polynomial right of the last knot
GenExtrapolation(knots, values, extrapolation, last) ==
  IF extrapolation = "constant" THEN ConstantPoly(values[Len(values)])
  ELSE LineGen(values[Len(values)],
               PolyDerivEval(last.num, knots[Len(knots)]), last.den,
               knots[Len(knots)])

\* gen_hermite_spline(knots, values, extrapolation): no argument is checked
gen_hermite_spline(knots, values, extrapolation) ==
  LET n == Len(knots)
      seg == [j \in 1..(n - 1) |-> GenSegment(knots, values, j)]
  IN  [j \in 1..n |->
         IF j < n THEN seg[j]
         ELSE GenExtrapolation(knots, values, extrapolation, seg[n - 1])]

\* A derivative at a knot is a quotient: a numerator and a denominator.
Quot(n, d) == <<n, d>>
Whole(seq) == [j \in 1..Len(seq) |-> Quot(seq[j], 1)]

\* hermine_interpolating_polynomial(knots, values, derivatives), with the
\* derivatives the quotients d0 and d1
hermine_interpolating_polynomial(x0, x1, v0, v1, d0, d1) ==
  LET b == d0[2] * d1[2]
      coef_unscaled ==
        Plus(Plus(Scale(h00, v0 * b), Scale(h01, v1 * b)),
             Scale(Plus(Scale(h10, d0[1] * d1[2]), Scale(h11, d1[1] * d0[2])),
                   x1 - x0))
  IN  Poly(Convert(coef_unscaled, x0, x1), b * Cube(x1 - x0))

\* np.gradient(values, knots)[j - 1]: one-sided differences at the two ends,
\* and inside the second-order difference for uneven spacing
NpGradient(values, knots, j) ==
  IF j = 1 THEN Quot(values[2] - values[1], knots[2] - knots[1])
  ELSE IF j = Len(values)
    THEN Quot(values[j] - values[j - 1], knots[j] - knots[j - 1])
    ELSE LET dx1 == knots[j] - knots[j - 1]
             dx2 == knots[j + 1] - knots[j]
         IN  Quot(dx1 * dx1 * values[j + 1]
                    + (dx2 * dx2 - dx1 * dx1) * values[j]
                    - dx2 * dx2 * values[j - 1],
                  dx1 * dx2 * (dx1 + dx2))

\* HermiteSpline.__init__, lines 113-125: an extrapolation polynomial
HermiteExtrapolation(policy, v, x, adjacent) ==
  IF policy = "constant" THEN ConstantPoly(v)
  ELSE LineHermite(v, PolyDerivEval(adjacent.num, x), adjacent.den, x)

\* HermiteSpline.__init__, lines 102-125: coef_array
HermiteCoefArray(knots, values, derivatives, ext_left, ext_right) ==
  LET n == Len(knots)
      seg == [j \in 1..(n - 1) |->
                hermine_interpolating_polynomial(
                  knots[j], knots[j + 1], values[j], values[j + 1],
                  derivatives[j], derivatives[j + 1])]
  IN  [j \in 1..(n + 1) |->
         IF j = 1 THEN HermiteExtrapolation(ext_left, values[1], knots[1], seg[1])
         ELSE IF j = n + 1
           THEN HermiteExtrapolation(ext_right, values[n], knots[n], seg[n - 1])
           ELSE seg[j - 1]]

\* the check of the knots in Spline.__init__ (56) and HermiteSpline.__init__
\* (95): the constructor goes on when it holds
KnotsAccepted(knots) == Sorted(knots)

Policies == {"constant", "linear"}
KnotSeqs == UNION {[1..n -> 0..MaxKnot] : n \in 2..MaxKnots}
ValueSeqs(n) == [1..n -> 0..1]

SInit ==
  /\ sp_pc = "call"
  /\ sp_ctor = ""
  /\ sp_knots \in KnotSeqs
  /\ sp_values \in ValueSeqs(Len(sp_knots))
  /\ sp_derivatives \in ValueSeqs(Len(sp_knots))
  /\ sp_extrapolation_left \in Policies
  /\ sp_extrapolation_right \in Policies
  /\ sp_coef_rows \in {Len(sp_knots), Len(sp_knots) + 1}
  /\ sp_raised = ""
  /\ sp_coef_array = <<>>
  /\ u_t = None
  /\ u_cond = <<>>
  /\ u_value = <<0, 1>>

\* gen_hermite_spline(knots, values, extrapolation)
CallGenHermiteSpline ==
  /\ sp_pc = "call"
  /\ sp_ctor' = "gen_hermite_spline"
  /\ sp_coef_array' =
       gen_hermite_spline(sp_knots, sp_values, sp_extrapolation_right)
  /\ sp_raised' = ""
  /\ sp_pc' = "done"
  /\ UNCHANGED <<sp_knots, sp_values, sp_derivatives, sp_extrapolation_left,
                 sp_extrapolation_right, sp_coef_rows>>
  /\ UNCHANGED <<u_t, u_cond, u_value>>
  /\ UNCHANGED <<dvars, pvars>>

\* Spline(knots, coef_array)
CallSpline ==
  /\ sp_pc = "call"
  /\ sp_ctor' = "Spline"
  /\ IF ~KnotsAccepted(sp_knots)
       THEN /\ sp_raised' = "ValueError: knots are not sorted"
            /\ sp_coef_array' = <<>>
       ELSE IF sp_coef_rows # Len(sp_knots) + 1
         THEN /\ sp_raised' = "ValueError: dimension inconsistency"
              /\ sp_coef_array' = <<>>
         ELSE /\ sp_raised' = ""
              /\ sp_coef_array' = [j \in 1..sp_coef_rows |-> ConstantPoly(j)]
  /\ sp_pc' = "done"
  /\ UNCHANGED <<sp_knots, sp_values, sp_derivatives, sp_extrapolation_left,
                 sp_extrapolation_right, sp_coef_rows>>
  /\ UNCHANGED <<u_t, u_cond, u_value>>
  /\ UNCHANGED <<dvars, pvars>>

\* HermiteSpline(knots, values, derivatives, extrapolation_left,
\* extrapolation_right); values and derivatives have the length of knots
CallHermiteSpline ==
  /\ sp_pc = "call"
  /\ sp_ctor' = "HermiteSpline"
  /\ IF ~KnotsAccepted(sp_knots)
       THEN /\ sp_raised' = "ValueError: knots are not sorted"
            /\ sp_coef_array' = <<>>
       ELSE /\ sp_raised' = ""
            /\ sp_coef_array' =
                 HermiteCoefArray(sp_knots, sp_values, Whole(sp_derivatives),
                                  sp_extrapolation_left, sp_extrapolation_right)
  /\ sp_pc' = "done"
  /\ UNCHANGED <<sp_knots, sp_values, sp_derivatives, sp_extrapolation_left,
                 sp_extrapolation_right, sp_coef_rows>>
  /\ UNCHANGED <<u_t, u_cond, u_value>>
  /\ UNCHANGED <<dvars, pvars>>

\* NaiveHermiteSpline(knots, values, extrapolation_left,
\* extrapolation_right): derivatives = np.gradient(values, knots), then
\* HermiteSpline.__init__
CallNaiveHermiteSpline ==
  /\ sp_pc = "call"
  /\ sp_ctor' = "NaiveHermiteSpline"
  /\ IF ~KnotsAccepted(sp_knots)
       THEN /\ sp_raised' = "ValueError: knots are not sorted"
            /\ sp_coef_array' = <<>>
       ELSE /\ sp_raised' = ""
            /\ sp_coef_array' =
                 HermiteCoefArray(
                   sp_knots, sp_values,
                   [j \in 1..Len(sp_knots) |->
                      NpGradient(sp_values, sp_knots, j)],
                   sp_extrapolation_left, sp_extrapolation_right)
  /\ sp_pc' = "done"
  /\ UNCHANGED <<sp_knots, sp_values, sp_derivatives, sp_extrapolation_left,
                 sp_extrapolation_right, sp_coef_rows>>
  /\ UNCHANGED <<u_t, u_cond, u_value>>
  /\ UNCHANGED <<dvars, pvars>>

\* The state of the spline constructors while another program is run.
SIdle ==
  /\ sp_pc = "idle"
  /\ sp_ctor = ""
  /\ sp_knots = <<>>
  /\ sp_values = <<>>
  /\ sp_derivatives = <<>>
  /\ sp_extrapolation_left = ""
  /\ sp_extrapolation_right = ""
  /\ sp_coef_rows = 0
  /\ sp_raised = ""
  /\ sp_coef_array = <<>>
  /\ u_t = None
  /\ u_cond = <<>>
  /\ u_value = <<0, 1>>

SplineInit == SInit /\ DIdle /\ PIdle

SplineNext ==
  \/ CallGenHermiteSpline
  \/ CallSpline
  \/ CallHermiteSpline
  \/ CallNaiveHermiteSpline

\* one call of a spline constructor
SpecSpline == SplineInit /\ [][SplineNext]_vars


(***************************************************************************)
(* spline_as_ufl (splines.py:59-74).                                       *)
(*                                                                         *)
(* The expression is symbolic in t; it is modelled by its value where t    *)
(* has a given value.  t ranges over the halves of a knot unit, so that it *)
(* falls on the knots, between them, below the first and above the last.   *)
(***************************************************************************)
\* The values of t, in halves: from half a unit below 0 to half a unit
\* above MaxKnot.
TPoints == (0 - 1)..(2 * MaxKnot + 1)

\* ge(t, Constant(x)), lt(t, Constant(x)): t in halves, x a knot
le(t, x) == t <= 2 * x
ge(t, x) == t >= 2 * x
lt(t, x) == t < 2 * x

\* conditional(condition, 1., 0.)
conditional(condition, true_value, false_value) ==
  IF condition THEN true_value ELSE false_value

\* Polynomial(spline[i])(t): the quotient of the value, t in halves
PolynomialAt(poly, t) ==
  Quot(8 * poly.num[1] + 4 * poly.num[2] * t + 2 * poly.num[3] * t * t
         + poly.num[4] * t * t * t,
       8 * poly.den)

\* c * q in floating point: a non-finite q stays non-finite under 0. * q
Times(c, q) == IF q[2] = 0 THEN Quot(0, 0) ELSE Quot(c * q[1], q[2])

\* x + y in floating point: non-finite when x or y is
AddQ(x, y) ==
  IF x[2] = 0 \/ y[2] = 0 THEN Quot(0, 0)
  ELSE IF x[1] = 0 THEN y
  ELSE IF y[1] = 0 THEN x
  ELSE Quot(x[1] * y[2] + y[1] * x[2], x[2] * y[2])

\* lines 63-70: the conditional of branch j; the branches before the last
\* are the half-open intervals [knots[i], knots[i+1]), the last is
\* t >= knots[-1]
BranchCondition(spline, knots, t, j) ==
  IF j < Len(spline)
    THEN conditional(ge(t, knots[j]) /\ lt(t, knots[j + 1]), 1, 0)
    ELSE conditional(ge(t, knots[Len(knots)]), 1, 0)

\* lines 61-70: expression = 0, then expression += conditional * polynomial
\* for the branches in order
RECURSIVE ufl_spline(_, _, _, _)
ufl_spline(spline, knots, t, j) ==
  IF j = 0 THEN Quot(0, 1)
  ELSE AddQ(ufl_spline(spline, knots, t, j - 1),
            Times(BranchCondition(spline, knots, t, j),
                  PolynomialAt(spline[j], t)))

\* spline_as_ufl(spline, knots)(t) on the spline gen_hermite_spline built
\* from the same knots, as core.py:126-146 calls it
CallSplineAsUfl ==
  /\ sp_pc = "done"
  /\ sp_ctor = "gen_hermite_spline"
  /\ \E t \in TPoints :
       /\ u_t' = t
       /\ u_cond' = [j \in 1..Len(sp_coef_array) |->
                       BranchCondition(sp_coef_array, sp_knots, t, j)]
       /\ u_value' = ufl_spline(sp_coef_array, sp_knots, t,
                                Len(sp_coef_array))
  /\ sp_pc' = "evaluated"
  /\ UNCHANGED <<sp_ctor, sp_knots, sp_values, sp_derivatives,
                 sp_extrapolation_left, sp_extrapolation_right, sp_coef_rows,
                 sp_raised, sp_coef_array>>
  /\ UNCHANGED <<dvars, pvars>>

\* The arguments of gen_hermite_spline; what the other constructors take is
\* left empty.
UInit ==
  /\ sp_pc = "call"
  /\ sp_ctor = ""
  /\ sp_knots \in KnotSeqs
  /\ sp_values \in ValueSeqs(Len(sp_knots))
  /\ sp_derivatives = <<>>
  /\ sp_extrapolation_left = ""
  /\ sp_extrapolation_right \in Policies
  /\ sp_coef_rows = 0
  /\ sp_raised = ""
  /\ sp_coef_array = <<>>
  /\ u_t = None
  /\ u_cond = <<>>
  /\ u_value = <<0, 1>>

UflInit == UInit /\ DIdle /\ PIdle

UflNext ==
  \/ CallGenHermiteSpline
  \/ CallSplineAsUfl

\* gen_hermite_spline, then spline_as_ufl on its result, evaluated at one t
SpecUfl == UflInit /\ [][UflNext]_vars

PipelineInit == PInit /\ DIdle /\ SIdle

PipelineNext ==
  \/ ForwardBegin
  \/ ForwardStep
  \/ ForwardReturn
  \/ AdjointBegin
  \/ AdjointStep
  \/ AdjointRaise
  \/ AdjointReturn
  \/ DjBegin
  \/ DjStep
  \/ DjIndexError
  \/ DjReturn

\* solve_forward, then solve_adjoint, then Dj, on one control
SpecPipeline == PipelineInit /\ [][PipelineNext]_vars

\* the driver's own steps
Step ==
  \/ SolveForwardInit
  \/ JInit
  \/ ListInit
  \/ AppendInit
  \/ ForNext
  \/ ForExhausted
  \/ SolveAdjoint
  \/ GradientStep
  \/ Converged
  \/ EnterLineSearch
  \/ Propose
  \/ Evaluate
  \/ Accept

Init == DInit /\ PIdle /\ SIdle

Next ==
  \/ SolveForwardInit
  \/ JInit
  \/ ListInit
  \/ AppendInit
  \/ ForNext
  \/ ForExhausted
  \/ SolveAdjoint
  \/ GradientStep
  \/ Converged
  \/ EnterLineSearch
  \/ Propose
  \/ Evaluate
  \/ Accept
  \/ Interrupt

Spec == Init /\ [][Next]_vars

\* The driver's steps are taken as long as one is enabled: the interpreter
\* keeps running the loop.  No interrupt is ever guaranteed to come.
FairSpec == Init /\ [][Next]_vars /\ WF_vars(Step)

(***************************************************************************)
(* Claims about gradient_descent                                           *)
(***************************************************************************)
\* the cost J of the forward trajectory of a recorded control
CostOf(c) == Jmemo[c]

\* C1 (descent monotonicity): every control in the record list after the
\* first has a cost less than or equal to the cost of the record appended
\* immediately before it.
C1_DescentMonotone ==
  \A k \in 2..Len(controls_iterations) :
    CostOf(controls_iterations[k]) <= CostOf(controls_iterations[k - 1])

\* Two steps were accepted and the list of three records was returned.
C1_Witness ==
  /\ pc = "done"
  /\ outcome = "returned"
  /\ interrupted = ""
  /\ Len(controls_iterations) = 3
  /\ CostOf(controls_iterations[3]) < CostOf(controls_iterations[1])

\* C2 as stated (box constraint): every control the line search proposes and
\* every control in the record list lies entrywise in [0, 1].
C2_BoxAllRecords ==
  /\ InBox(control_next)
  /\ \A k \in 1..Len(controls_iterations) : InBox(controls_iterations[k])

\* C2 as amended: every control the line search proposes and every record
\* after the first lies entrywise in [0, 1]; the first record is the
\* caller's initial control, unclipped.
C2_BoxProposedAndAccepted ==
  /\ InBox(control_next)
  /\ \A k \in 2..Len(controls_iterations) : InBox(controls_iterations[k])
  /\ Len(controls_iterations) >= 1 => controls_iterations[1] = arg_control

\* A step was accepted from an initial control outside the box, with a
\* gradient that pushes the proposal beyond both ends of the box.
C2_Witness ==
  /\ Len(controls_iterations) >= 2
  /\ ~InBox(controls_iterations[1])
  /\ \E k \in 1..Nt : control[k] = 0 /\ arg_control[k] - accS * D[k] < 0
  /\ \E k \in 1..Nt : control[k] = One /\ arg_control[k] - accS * D[k] > One

\* C3 (termination): gradient_descent eventually returns.
C3_Terminates == <>(pc = "done")

\* C4 (cancellation): an interrupt makes the call return normally with the
\* records appended so far; it never ends in an error.
C4_InterruptReturnsPartial ==
  interrupted # "" => (pc = "done" /\ outcome = "returned")

\* C5 (step-size carry-over): the first proposal of an outer iteration uses
\* twice the step size of the proposal the previous iteration accepted.
C5_StepCarryOver ==
  (pc = "J_next" /\ prevS = None /\ accS # None) => lastS = 2 * accS

\* C10 (line-search step sequence): the first proposal of a line search uses
\* the step size it was entered with, and every retry uses exactly half the
\* step size of the proposal just rejected.
C10_StepSequence ==
  pc = "J_next" =>
    IF prevS = None THEN lastS = sEntry ELSE 2 * lastS = prevS

\* The program point between two outer iterations: the head of the loop
\* for i in range(iter_max).
IterationBoundary == {"for_head"}

\* C13 (cancellation granularity): an interrupt takes effect only at an
\* outer-iteration boundary; it never makes gradient_descent return from
\* the point of a forward solve, an adjoint solve or a line-search trial
\* that has not finished.
C13_InterruptAtBoundary ==
  interrupted # "" => interrupted \in IterationBoundary

(***************************************************************************)
(* Claims about solve_forward and Dj                                       *)
(***************************************************************************)
\* the form whose solution the field x is
FormOf(x) == x[2]

\* C6 (forward trajectory shape): solve_forward returns len(control) + 1
\* states; entry 0 is the initial state passed in; entry k + 1 is the result
\* of the one solve of step k, whose form is built from entry k as the
\* previous state and control[k] as the intensity; the steps are solved in
\* ascending order, one solve each.
C6_ForwardShape ==
  ppc \notin {"idle", "solve_forward"} =>
    /\ Len(f_evolution) = Len(p_control) + 1
    /\ At(f_evolution, 0) = p_theta_init
    /\ f_solved = [k \in 1..f_k |-> k - 1]
    /\ ppc # "forward_loop" => f_k = Len(p_control)
    /\ \A k \in 0..(f_k - 1) :
         /\ At(f_evolution, k + 1)[1] = "solution"
         /\ FormOf(At(f_evolution, k + 1))[2] = At(f_evolution, k)
         /\ FormOf(At(f_evolution, k + 1))[5] = At(p_control, k)

\* solve_forward has returned the trajectory of a control of three steps
\* whose intensities differ.
C6_Witness ==
  /\ ppc = "solve_adjoint"
  /\ Len(p_control) = 3
  /\ At(p_control, 0) # At(p_control, 1)
  /\ At(p_control, 1) # At(p_control, 2)
  /\ f_k = 3

\* C7 (gradient length): solve_forward, solve_adjoint and Dj run on a
\* control of length n return a gradient of exactly n entries, entry i
\* computed from the adjoint state at index i.
C7_GradientLength ==
  ppc = "done" =>
    /\ p_outcome = "returned"
    /\ Len(g_z) = Len(p_control)
    /\ \A k \in 0..(Len(g_z) - 1) :
         At(g_z, k) = <<"assemble", At(a_evolution_adj, k)>>

(***************************************************************************)
(* Claims about solve_adjoint                                              *)
(***************************************************************************)
\* C11 (adjoint sweep index invariant): at the start of every backward step
\* k the 'next' adjoint buffer holds the returned adjoint entry k (the zero
\* field for k = Nt, which is never overwritten), the 'next' state buffer
\* holds evolution[k] and, for k < Nt, the one-step-ahead buffer, which is
\* never reloaded from the trajectory, holds evolution[k + 1]; step k
\* couples evolution[k - 1], evolution[k] and control[k - 1] (for k < Nt
\* also control[k]) and writes adjoint entry k - 1, which no other step
\* writes: the entries below the current k are still the zeros they were
\* created as.
C11_AdjointSweep ==
  ppc \in {"adjoint_loop", "Dj", "Dj_loop", "done"} =>
    LET n == Len(p_control)
    IN  /\ Len(a_evolution_adj) = n + 1
        /\ At(a_evolution_adj, n) = ZeroFn
        /\ (ppc = "adjoint_loop" /\ a_k >= 1) =>
             /\ a_p_next = At(a_evolution_adj, a_k)
             /\ a_theta_next = At(f_evolution, a_k)
             /\ a_k < n => a_theta_next_ = At(f_evolution, a_k + 1)
        /\ \A j \in 0..(a_k - 1) : At(a_evolution_adj, j) = ZeroFn
        /\ \A j \in a_k..(n - 1) :
             LET p == At(a_evolution_adj, j)
                 k == j + 1
             IN  /\ p[1] = "adjoint"
                 /\ FormOf(p)[1] = a(At(f_evolution, k - 1), At(f_evolution, k),
                                     TrialFn, At(p_control, k - 1))
                 /\ FormOf(p)[2] =
                      IF k < n
                        THEN a(At(f_evolution, k), At(f_evolution, k + 1),
                               At(a_evolution_adj, k), At(p_control, k))
                        ELSE <<"none">>

\* solve_adjoint is at the start of step 1 of a control of three steps whose
\* intensities differ: the steps 3 and 2 are done.
C11_Witness ==
  /\ ppc = "adjoint_loop"
  /\ Len(p_control) = 3
  /\ At(p_control, 0) # At(p_control, 1)
  /\ a_k = 1
  /\ At(a_evolution_adj, 1)[1] = "adjoint"
  /\ a_theta_next_ = At(f_evolution, 2)

\* C12 (zero right-hand side confined to the terminal step): the adjoint
\* entry of a step k < Nt is never solved with the zero right-hand side put
\* in the place of a failed assembly; only the entry of step k = Nt is.
C12_FallbackOnlyTerminal ==
  ppc \in {"adjoint_loop", "Dj", "Dj_loop", "done"} =>
    \A j \in a_k..(Len(p_control) - 1) :
      At(a_evolution_adj, j)[3] = <<"zero_rhs">> => j + 1 = Len(p_control)

(***************************************************************************)
(* Claims about the splines                                                *)
(***************************************************************************)
\* The polynomial ext is the straight line that has the value v at the
\* knot x and there the slope of the cubic adjacent.
LineThrough(ext, adjacent, x, v) ==
  /\ ext.num[3] = 0
  /\ ext.num[4] = 0
  /\ PolyEval(ext.num, x) = v * ext.den
  /\ ext.num[2] * adjacent.den = PolyDerivEval(adjacent.num, x) * ext.den

\* C8 (linear extrapolation): a spline built with the linear policy on
\* strictly increasing knots extrapolates by the straight line that has, at
\* the boundary knot, the boundary value and the slope of the adjacent cubic.
C8_LinearExtrapolation ==
  (sp_pc = "done" /\ sp_raised = "" /\ StrictlySorted(sp_knots)) =>
    LET n == Len(sp_knots)
    IN  /\ (sp_ctor = "gen_hermite_spline" /\ sp_extrapolation_right = "linear")
             => LineThrough(sp_coef_array[n], sp_coef_array[n - 1],
                            sp_knots[n], sp_values[n])
        /\ (sp_ctor \in {"HermiteSpline", "NaiveHermiteSpline"}
              /\ sp_extrapolation_right = "linear")
             => LineThrough(sp_coef_array[n + 1], sp_coef_array[n],
                            sp_knots[n], sp_values[n])
        /\ (sp_ctor \in {"HermiteSpline", "NaiveHermiteSpline"}
              /\ sp_extrapolation_left = "linear")
             => LineThrough(sp_coef_array[1], sp_coef_array[2],
                            sp_knots[1], sp_values[1])

\* C9 (knot validation): a constructor given knots that are not strictly
\* increasing raises and builds nothing.
C9_KnotValidation ==
  (sp_pc = "done" /\ ~StrictlySorted(sp_knots)) =>
    (sp_raised # "" /\ sp_coef_array = <<>>)

(***************************************************************************)
(* Claims about spline_as_ufl                                              *)
(***************************************************************************)
\* the branches whose conditional has the value 1
ActiveBranches == {j \in 1..Len(u_cond) : u_cond[j] = 1}

\* the expression has the value of the polynomial of branch j at u_t
ValueOfBranch(j) ==
  LET q == PolynomialAt(sp_coef_array[j], u_t)
  IN  /\ u_value[2] # 0
      /\ q[2] # 0
      /\ u_value[1] * q[2] = q[1] * u_value[2]

\* C14 (symbolic branch selection): for strictly increasing knots the
\* expression of spline_as_ufl activates exactly one branch for every
\* t >= knots[0], the cubic of the half-open interval [knots[i], knots[i+1])
\* that contains t or the extrapolation polynomial for t >= knots[-1], and
\* has that polynomial's value; for t < knots[0] it activates no branch and
\* has the value 0.
C14_BranchSelection ==
  (sp_pc = "evaluated" /\ StrictlySorted(sp_knots)) =>
    LET n == Len(sp_knots)
    IN  IF u_t < 2 * sp_knots[1]
          THEN /\ ActiveBranches = {}
               /\ u_value[1] = 0
               /\ u_value[2] # 0
          ELSE \E j \in 1..n :
                 /\ ActiveBranches = {j}
                 /\ 2 * sp_knots[j] <= u_t
                 /\ j < n => u_t < 2 * sp_knots[j + 1]
                 /\ ValueOfBranch(j)

\* The expression built on three strictly increasing knots is evaluated at
\* the inner knot, where two intervals meet, and its value there is not 0.
C14_Witness ==
  /\ sp_pc = "evaluated"
  /\ Len(sp_knots) = 3
  /\ StrictlySorted(sp_knots)
  /\ u_t = 2 * sp_knots[2]
  /\ u_cond = <<0, 1, 0>>
  /\ u_value[1] # 0

====
